---- MODULE Spec2Model ----
(***************************************************************************)
(* Loan lifecycle and ledger engine of the USSD wallet service.            *)
(*                                                                         *)
(* The state is the content of the four tables (users, wallets, loans,     *)
(* transactions) plus, for every request in flight, the rows its database  *)
(* session has read.  Money is modelled in whole shillings; the loan       *)
(* amounts offered are multiples of 20 so that the 15% interest is a whole *)
(* number, as it is for the float arithmetic of the source on such inputs. *)
(***************************************************************************)
EXTENDS Integers, Sequences, FiniteSets, TLC

VARIABLES
    users,          \* users table: user id -> row
    wallets,        \* wallets table: user id -> row (Wallet.user_id is unique)
    loans,          \* loans table: sequence of rows, the index is the loan id
    transactions,   \* transactions table: set of rows
    ghost,          \* per loan: wallet values observed around its disbursement, and
                    \* the payment request the gateway holds for it
    sess,           \* per request worker: the database session of a request in flight
    last            \* the last request that returned, with its outcome

vars == <<users, wallets, loans, transactions, ghost, sess, last>>
db == <<users, wallets, loans, transactions>>

----------------------------------------------------------------------------
(* Bounds of the model *)

(* rows the loans table holds at most *)
MaxLoans == 2
(* repayment rows the ledger holds at most *)
MaxRepayments == 2

(* Program constants *)

InterestRate == 15
DefaultCreditScore == 300
MaxCreditScore == 850
MinCreditScore == 300
RepaidScoreBonus == 50
DefaultTotalLoanLimit == 50000
DefaultCurrentLoanLimit == 5000

----------------------------------------------------------------------------
(* Universe of inputs *)

Users == {"u1", "u2"}
UserIds == Users \cup {"nobody"}
Procs == {"p1", "p2"}
LoanIds == 1..MaxLoans

NoReceipt == "none"
Receipts == {"QGH123"}
ReceiptArgs == Receipts \cup {NoReceipt}

(* the CheckoutRequestID the gateway gives to a payment request *)
NoCheckout == "none"
CheckoutIds == {"ws_CO_1"}

Amounts == {0, 1000, 6000}
Payments == {500, 650, 1150}
Scores == {250, 300}

PhoneOf(u) == IF u = "u1" THEN "254700000001" ELSE "254700000002"
Phones == {PhoneOf(u) : u \in Users} \cup {"254799999999"}

(* the ids (uuid4) new users get, and the phone numbers that dial in *)
NewUserIds == {"u3", "u4"}
ContactPhones == {PhoneOf("u1"), "254700000003", "254700000004"}

(* schemas/loan.py LoanStatus *)
PENDING == "pending"
APPROVED == "approved"
REJECTED == "rejected"
DISBURSED == "disbursed"
REPAID == "repaid"
DEFAULTED == "defaulted"
(* the active statuses, were a disbursed loan not counted *)
ActiveStatusesNotDisbursed == {PENDING, APPROVED}

ActiveStatuses == {PENDING, APPROVED, DISBURSED}

InitCreditScore(u) == IF u = "u1" THEN DefaultCreditScore ELSE 800

----------------------------------------------------------------------------
(* Helpers over the tables *)

LoanExists(l) == l \in 1..Len(loans)

(* the rows of a user's loans whose status is in S *)
LoansOf(u, S) == {l \in 1..Len(loans) : loans[l].user_id = u /\ loans[l].status \in S}

TxnsOf(l, type) == {t \in transactions : t.loan_id = l /\ t.type = type}

(* the receipt column without its unique index *)
ReceiptTakenNever(r) == FALSE

(* Transaction.mpesa_receipt is UNIQUE: an INSERT of a present receipt fails *)
ReceiptTaken(r) == r # NoReceipt /\ \E t \in transactions : t.mpesa_receipt = r

(* a new row of the ledger; seq tells rows apart that agree in every column the
   model keeps (the source's rows differ in their uuid) *)
NewTxn(l, type, amount, status, receipt) ==
    [loan_id |-> l, user_id |-> loans[l].user_id, type |-> type, amount |-> amount,
     status |-> status, mpesa_receipt |-> receipt,
     seq |-> Cardinality({t \in transactions :
                            /\ t.loan_id = l /\ t.type = type
                            /\ t.amount = amount /\ t.mpesa_receipt = receipt})]

RECURSIVE SumAmount(_)
SumAmount(S) ==
    IF S = {} THEN 0
    ELSE LET t == CHOOSE x \in S : TRUE IN t.amount + SumAmount(S \ {t})

NoPayload == [code |-> -1, amount |-> 0, receipt |-> NoReceipt, phone |-> "",
              checkout |-> NoCheckout]

(* what a menu handler returns: the prompt (its wording, the numbers and the word
   it shows) and should_close *)
NoReply == [text |-> "", nums |-> <<>>, note |-> "", ref |-> "", close |-> FALSE]
(* the menu request a reply answers: who dialled, the path, what failed *)
NoRequest == [phone |-> "", path |-> <<>>, fault |-> "none"]
(* no payment request was sent to the gateway; no SMS task was queued *)
NoStk == "none"
NoSms == "none"

(* what the caller of the last finished request observed; `again` tells that the
   request before it was the same request and had succeeded *)
Outcome(op, l, result) ==
    [op |-> op, loan |-> l, result |-> result, payload |-> NoPayload, response |-> -1,
     again |-> (last.op = op /\ last.loan = l /\ last.result = "ok"),
     request |-> NoRequest, reply |-> NoReply, prefix |-> "", stk |-> NoStk,
     sms |-> NoSms]

NoGhost == [limit_before |-> 0, available_before |-> 0, balance_after |-> 0,
            due_at_disbursement |-> 0, checkout |-> NoCheckout]


(* a worker with no request in flight *)
Idle ==
    [pc |-> "idle", loan |-> 0, user |-> "", amount |-> 0, receipt |-> NoReceipt,
     l_amount |-> 0, l_due |-> 0, w_avail |-> 0, w_bal |-> 0, w_limit |-> 0,
     u_score |-> 0, rows |-> {}, phone |-> ""]

----------------------------------------------------------------------------
Init ==
    /\ users = [u \in Users |-> [credit_score |-> InitCreditScore(u),
                                 phone_number |-> PhoneOf(u)]]
    /\ wallets = [u \in Users |-> [available_balance |-> 0, loan_balance |-> 0,
                                   total_loan_limit |-> DefaultTotalLoanLimit,
                                   current_loan_limit |-> DefaultCurrentLoanLimit]]
    /\ loans = <<>>
    /\ transactions = {}
    /\ ghost = <<>>
    /\ sess = [p \in Procs |-> Idle]
    /\ last = [op |-> "none", loan |-> 0, result |-> "none", payload |-> NoPayload,
               response |-> -1, again |-> FALSE,
               request |-> NoRequest, reply |-> NoReply, prefix |-> "", stk |-> NoStk,
     sms |-> NoSms]

----------------------------------------------------------------------------
(* LoanService: the requests run to completion, one at a time *)

(* check_eligibility without its count of the user's active loans *)
CheckEligibilityNoActiveCount(u, a) ==
    IF u \notin DOMAIN users \/ u \notin DOMAIN wallets THEN "User not found"
    ELSE IF a <= 0 THEN "Invalid amount"
    ELSE IF a > wallets[u].current_loan_limit THEN "Amount exceeds limit"
    ELSE IF users[u].credit_score < MinCreditScore THEN "Low credit score"
    ELSE "eligible"

(* check_eligibility with the active-loan rule ahead of the credit score rule *)
CheckEligibilityActiveLoanFirst(u, a) ==
    IF u \notin DOMAIN users \/ u \notin DOMAIN wallets THEN "User not found"
    ELSE IF a <= 0 THEN "Invalid amount"
    ELSE IF a > wallets[u].current_loan_limit THEN "Amount exceeds limit"
    ELSE IF Cardinality(LoansOf(u, ActiveStatuses)) > 0 THEN "You have an active loan"
    ELSE IF users[u].credit_score < MinCreditScore THEN "Low credit score"
    ELSE "eligible"

(* check_eligibility: the reason of the first failing rule, or "eligible" *)
CheckEligibility(u, a) ==
    IF u \notin DOMAIN users \/ u \notin DOMAIN wallets THEN "User not found"
    ELSE IF a <= 0 THEN "Invalid amount"
    ELSE IF a > wallets[u].current_loan_limit THEN "Amount exceeds limit"
    ELSE IF users[u].credit_score < MinCreditScore THEN "Low credit score"
    ELSE IF Cardinality(LoansOf(u, ActiveStatuses)) > 0 THEN "You have an active loan"
    ELSE "eligible"

(* the max_amount check_eligibility returns beside eligible = True *)
EligibilityMaxAmount(u, a) ==
    IF CheckEligibility(u, a) = "eligible" THEN wallets[u].current_loan_limit ELSE -1

(* a caller asks check_eligibility alone, as the loan menu does before it offers
   the purposes *)
CheckEligibilityRequest(u, a) ==
    /\ last' = [Outcome("check_eligibility", 0, CheckEligibility(u, a))
                  EXCEPT !.response = EligibilityMaxAmount(u, a)]
    /\ UNCHANGED <<users, wallets, loans, transactions, ghost, sess>>

(* UserService.update_user_credit_score *)
UpdateUserCreditScore(u, score) ==
    /\ users' = IF u \in DOMAIN users
                THEN [users EXCEPT ![u].credit_score = score] ELSE users
    /\ last' = Outcome("update_credit_score", 0, "ok")
    /\ UNCHANGED <<wallets, loans, transactions, ghost, sess>>

InterestAmount(a) == (a * InterestRate) \div 100
AmountDue(a) == a + InterestAmount(a)

(* create_loan_application committing the loan row without its ledger row *)
InsertApplicationLoanOnly(u, a) ==
    LET l == Len(loans) + 1
        row == [user_id |-> u, amount |-> a, amount_due |-> AmountDue(a),
                status |-> PENDING, past_due |-> FALSE]
    IN /\ Len(loans) < MaxLoans
       /\ loans' = Append(loans, row)
       /\ ghost' = Append(ghost, NoGhost)
       /\ transactions' = transactions
       /\ last' = Outcome("apply", l, "ok")

(* the INSERTs of create_loan_application, at its commit *)
InsertApplication(u, a) ==
    LET l == Len(loans) + 1
        row == [user_id |-> u, amount |-> a, amount_due |-> AmountDue(a),
                status |-> PENDING, past_due |-> FALSE]
    IN /\ Len(loans) < MaxLoans
       /\ loans' = Append(loans, row)
       /\ ghost' = Append(ghost, NoGhost)
       /\ transactions' = transactions \cup
             {[loan_id |-> l, user_id |-> u, type |-> "application", amount |-> a,
               status |-> "pending", mpesa_receipt |-> NoReceipt, seq |-> 0]}
       /\ last' = Outcome("apply", l, "ok")

CreateLoanApplication(u, a) ==
    LET why == CheckEligibility(u, a) IN
    IF why # "eligible"
    THEN /\ last' = Outcome("apply", 0, why)
         /\ UNCHANGED <<users, wallets, loans, transactions, ghost, sess>>
    ELSE /\ InsertApplication(u, a)
         /\ UNCHANGED <<users, wallets, sess>>

(* approve_loan without its status check *)
ApproveLoanAnyStatus(l) ==
    IF ~LoanExists(l)
    THEN /\ last' = Outcome("approve", l, "Loan not found")
         /\ UNCHANGED <<users, wallets, loans, transactions, ghost, sess>>
    ELSE /\ loans' = [loans EXCEPT ![l].status = APPROVED]
         /\ transactions' = {IF t \in TxnsOf(l, "application")
                             THEN [t EXCEPT !.status = "approved"] ELSE t
                             : t \in transactions}
         /\ last' = Outcome("approve", l, "ok")
         /\ UNCHANGED <<users, wallets, ghost, sess>>

(* approve_loan *)
ApproveLoan(l) ==
    IF ~LoanExists(l)
    THEN /\ last' = Outcome("approve", l, "Loan not found")
         /\ UNCHANGED <<users, wallets, loans, transactions, ghost, sess>>
    ELSE IF loans[l].status # PENDING
    THEN /\ last' = Outcome("approve", l, "invalid_transition")
         /\ UNCHANGED <<users, wallets, loans, transactions, ghost, sess>>
    ELSE /\ loans' = [loans EXCEPT ![l].status = APPROVED]
         /\ transactions' = {IF t \in TxnsOf(l, "application")
                             THEN [t EXCEPT !.status = "approved"] ELSE t
                             : t \in transactions}
         /\ last' = Outcome("approve", l, "ok")
         /\ UNCHANGED <<users, wallets, ghost, sess>>

(* the wallet after a disbursement that leaves the loan limit alone *)
DisbursedWalletLimitKept(w, a, d) ==
    [w EXCEPT !.available_balance = @ + a,
              !.loan_balance = @ + d]

(* the wallet of a user after a loan of principal a and amount due d is disbursed *)
DisbursedWallet(w, a, d) ==
    [w EXCEPT !.available_balance = @ + a,
              !.loan_balance = @ + d,
              !.current_loan_limit = @ - a]

GhostAtDisbursement(l, u) ==
    [ghost EXCEPT ![l] = [limit_before |-> wallets[u].current_loan_limit,
                          available_before |-> wallets[u].available_balance,
                          balance_after |-> wallets'[u].loan_balance,
                          due_at_disbursement |-> loans[l].amount_due,
                          checkout |-> ghost[l].checkout]]

(* the status check of disburse_loan, as a loan disbursed twice would pass it *)
CanDisburseAnyFunded(status) == status \in {APPROVED, DISBURSED}

(* the status check of disburse_loan *)
CanDisburse(status) == status = APPROVED

(* disburse_loan *)
DisburseLoan(l, r) ==
    IF ~LoanExists(l)
    THEN /\ last' = Outcome("disburse", l, "Loan not found")
         /\ UNCHANGED <<users, wallets, loans, transactions, ghost, sess>>
    ELSE IF ~CanDisburse(loans[l].status)
    THEN /\ last' = Outcome("disburse", l, "invalid_transition")
         /\ UNCHANGED <<users, wallets, loans, transactions, ghost, sess>>
    ELSE IF loans[l].user_id \notin DOMAIN wallets
    THEN /\ last' = Outcome("disburse", l, "Wallet not found")
         /\ UNCHANGED <<users, wallets, loans, transactions, ghost, sess>>
    ELSE IF ReceiptTaken(r)
    THEN /\ last' = Outcome("disburse", l, "integrity_error")
         /\ UNCHANGED <<users, wallets, loans, transactions, ghost, sess>>
    ELSE LET u == loans[l].user_id IN
         /\ loans' = [loans EXCEPT ![l].status = DISBURSED]
         /\ wallets' = [wallets EXCEPT
                          ![u] = DisbursedWallet(@, loans[l].amount, loans[l].amount_due)]
         /\ transactions' = transactions \cup
               {NewTxn(l, "disbursement", loans[l].amount, "completed", r)}
         /\ ghost' = GhostAtDisbursement(l, u)
         /\ last' = Outcome("disburse", l, "ok")
         /\ UNCHANGED <<users, sess>>

(* the SMS task approve_and_disburse_loan queues once the rows are changed in the
   session, ahead of its commit: none if the user row is missing *)
SmsBeforeCommit(u) == IF u \in DOMAIN users THEN "disbursed" ELSE NoSms

(* approve_and_disburse_loan: the flush at the commit raises IntegrityError on a
   receipt the ledger holds already, after the SMS task was queued *)
ApproveAndDisburseLoan(l, r) ==
    IF ~LoanExists(l)
    THEN /\ last' = Outcome("approve_and_disburse", l, "Loan not found")
         /\ UNCHANGED <<users, wallets, loans, transactions, ghost, sess>>
    ELSE IF loans[l].status # PENDING
    THEN /\ last' = Outcome("approve_and_disburse", l, "invalid_transition")
         /\ UNCHANGED <<users, wallets, loans, transactions, ghost, sess>>
    ELSE IF loans[l].user_id \notin DOMAIN wallets
    THEN /\ last' = Outcome("approve_and_disburse", l, "Wallet not found")
         /\ UNCHANGED <<users, wallets, loans, transactions, ghost, sess>>
    ELSE IF ReceiptTaken(r)
    THEN /\ last' = [Outcome("approve_and_disburse", l, "integrity_error")
                       EXCEPT !.sms = SmsBeforeCommit(loans[l].user_id)]
         /\ UNCHANGED <<users, wallets, loans, transactions, ghost, sess>>
    ELSE LET u == loans[l].user_id IN
         /\ loans' = [loans EXCEPT ![l].status = DISBURSED]
         /\ wallets' = [wallets EXCEPT
                          ![u] = DisbursedWallet(@, loans[l].amount, loans[l].amount_due)]
         /\ transactions' =
               {IF t \in TxnsOf(l, "application")
                THEN [t EXCEPT !.status = "approved"] ELSE t : t \in transactions}
               \cup {NewTxn(l, "disbursement", loans[l].amount, "completed", r)}
         /\ ghost' = GhostAtDisbursement(l, u)
         /\ last' = [Outcome("approve_and_disburse", l, "ok")
                       EXCEPT !.sms = SmsBeforeCommit(u)]
         /\ UNCHANGED <<users, sess>>

(* the credit score after a full repayment, were the bonus not capped *)
ScoreAfterRepaidUncapped(s) == s + RepaidScoreBonus

(* the credit score after a full repayment *)
ScoreAfterRepaid(s) == IF s + RepaidScoreBonus < MaxCreditScore
                       THEN s + RepaidScoreBonus ELSE MaxCreditScore

(* the loan row and the wallet row after a repayment of p on a loan row ln *)
RepaidLoan(ln, p) ==
    IF ln.amount_due - p <= 0
    THEN [ln EXCEPT !.status = REPAID, !.amount_due = 0]
    ELSE [ln EXCEPT !.amount_due = ln.amount_due - p]

(* the wallet update with the partial branch zeroing the balance too *)
RepaidWalletAlwaysZero(w, ln, p) ==
    IF ln.amount_due - p <= 0
    THEN [w EXCEPT !.loan_balance = 0, !.current_loan_limit = @ + ln.amount]
    ELSE [w EXCEPT !.loan_balance = 0]

(* the wallet update restoring the limit by the amount paid, not the principal *)
RepaidWalletPaidAmount(w, ln, p) ==
    IF ln.amount_due - p <= 0
    THEN [w EXCEPT !.loan_balance = 0, !.current_loan_limit = @ + p]
    ELSE [w EXCEPT !.loan_balance = @ - p]

RepaidWallet(w, ln, p) ==
    IF ln.amount_due - p <= 0
    THEN [w EXCEPT !.loan_balance = 0, !.current_loan_limit = @ + ln.amount]
    ELSE [w EXCEPT !.loan_balance = @ - p]

(* record_repayment without its status check *)
RecordRepaymentAnyStatus(l, p, r) ==
    IF ~LoanExists(l)
    THEN /\ last' = Outcome("repay", l, "Loan not found")
         /\ UNCHANGED <<users, wallets, loans, transactions, ghost, sess>>
    ELSE LET u == loans[l].user_id
             remaining == loans[l].amount_due - p
         IN /\ Cardinality({t \in transactions : t.type = "repayment"}) < MaxRepayments
            /\ transactions' = transactions \cup
                  {NewTxn(l, "repayment", p, "completed", r)}
            /\ loans' = [loans EXCEPT ![l] = RepaidLoan(@, p)]
            /\ wallets' = [wallets EXCEPT ![u] = RepaidWallet(@, loans[l], p)]
            /\ users' = IF remaining <= 0 /\ u \in DOMAIN users
                        THEN [users EXCEPT
                                ![u].credit_score = ScoreAfterRepaid(@)]
                        ELSE users
            /\ last' = Outcome("repay", l, "ok")
            /\ UNCHANGED <<ghost, sess>>

(* record_repayment *)
RecordRepayment(l, p, r) ==
    IF ~LoanExists(l)
    THEN /\ last' = Outcome("repay", l, "Loan not found")
         /\ UNCHANGED <<users, wallets, loans, transactions, ghost, sess>>
    ELSE IF loans[l].status # DISBURSED
    THEN /\ last' = Outcome("repay", l, "invalid_transition")
         /\ UNCHANGED <<users, wallets, loans, transactions, ghost, sess>>
    ELSE IF loans[l].user_id \notin DOMAIN wallets
    THEN /\ last' = Outcome("repay", l, "Wallet not found")
         /\ UNCHANGED <<users, wallets, loans, transactions, ghost, sess>>
    ELSE IF ReceiptTaken(r)
    THEN /\ last' = Outcome("repay", l, "integrity_error")
         /\ UNCHANGED <<users, wallets, loans, transactions, ghost, sess>>
    ELSE LET u == loans[l].user_id
             remaining == loans[l].amount_due - p
         IN /\ Cardinality({t \in transactions : t.type = "repayment"}) < MaxRepayments
            /\ transactions' = transactions \cup
                  {NewTxn(l, "repayment", p, "completed", r)}
            /\ loans' = [loans EXCEPT ![l] = RepaidLoan(@, p)]
            /\ wallets' = [wallets EXCEPT ![u] = RepaidWallet(@, loans[l], p)]
            /\ users' = IF remaining <= 0 /\ u \in DOMAIN users
                        THEN [users EXCEPT
                                ![u].credit_score = ScoreAfterRepaid(@)]
                        ELSE users
            /\ last' = Outcome("repay", l, "ok")
            /\ UNCHANGED <<ghost, sess>>

(* the due_date of a disbursed loan falls behind the clock (before its
   disbursement the due date is read by nothing) *)
TimePasses(l) ==
    /\ LoanExists(l)
    /\ loans[l].status = DISBURSED
    /\ ~loans[l].past_due
    /\ loans' = [loans EXCEPT ![l].past_due = TRUE]
    /\ UNCHANGED <<users, wallets, transactions, ghost, sess, last>>

(* the rows selected, were the due date not part of the filter *)
OverdueLoansAnyDueDate == {l \in 1..Len(loans) : loans[l].status = DISBURSED}

(* the rows check_overdue_loans selects *)
OverdueLoans == {l \in 1..Len(loans) : loans[l].status = DISBURSED /\ loans[l].past_due}

(* the overdue check, were a default to cost the borrower 50 points *)
CheckOverdueLoansPenalising ==
    /\ loans' = [l \in 1..Len(loans) |->
                   IF l \in OverdueLoans THEN [loans[l] EXCEPT !.status = DEFAULTED]
                   ELSE loans[l]]
    /\ users' = [u \in DOMAIN users |->
                   IF \E l \in OverdueLoans : loans[l].user_id = u
                   THEN [users[u] EXCEPT !.credit_score = @ - RepaidScoreBonus]
                   ELSE users[u]]
    /\ last' = Outcome("check_overdue", Cardinality(OverdueLoans), "ok")
    /\ UNCHANGED <<wallets, transactions, ghost, sess>>

(* core.tasks.check_overdue_loans *)
CheckOverdueLoans ==
    /\ loans' = [l \in 1..Len(loans) |->
                   IF l \in OverdueLoans THEN [loans[l] EXCEPT !.status = DEFAULTED]
                   ELSE loans[l]]
    /\ last' = Outcome("check_overdue", Cardinality(OverdueLoans), "ok")
    /\ UNCHANGED <<users, wallets, transactions, ghost, sess>>

----------------------------------------------------------------------------
(* The payment callback *)

FailedPayload == [code |-> 1032, amount |-> 0, receipt |-> NoReceipt, phone |-> "",
                  checkout |-> "ws_CO_1"]
Malformed == [code |-> -2, amount |-> 0, receipt |-> NoReceipt, phone |-> "",
              checkout |-> NoCheckout]
Payloads ==
    {[code |-> 0, amount |-> 500, receipt |-> "QGH123", phone |-> PhoneOf("u1"),
      checkout |-> "ws_CO_1"],
     [code |-> 0, amount |-> 500, receipt |-> "QGH123", phone |-> "254799999999",
      checkout |-> "ws_CO_1"],
     [code |-> 0, amount |-> 0, receipt |-> NoReceipt, phone |-> PhoneOf("u1"),
      checkout |-> "ws_CO_1"],
     FailedPayload, Malformed}

(* LoanService.get_active_loan: a DISBURSED loan of the user, if there is one *)
GetActiveLoan(u) == LoansOf(u, {DISBURSED})

(* the repayment menu, step 2: the checks, then MPESAService.initiate_stk_push.
   The gateway accepts the request and answers a CheckoutRequestID k, or refuses;
   the service stores nothing, the request lives at the gateway only *)
InitiateStkPush(u, a, k, accepted) ==
    IF a <= 0
    THEN /\ last' = Outcome("stk_push", 0, "Amount must be greater than 0.")
         /\ UNCHANGED <<users, wallets, loans, transactions, ghost, sess>>
    ELSE IF a < 10
    THEN /\ last' = Outcome("stk_push", 0, "Minimum payment is KES 10.")
         /\ UNCHANGED <<users, wallets, loans, transactions, ghost, sess>>
    ELSE IF GetActiveLoan(u) = {}
    THEN /\ last' = Outcome("stk_push", 0, "No active loan found.")
         /\ UNCHANGED <<users, wallets, loans, transactions, ghost, sess>>
    ELSE \E l \in GetActiveLoan(u) :
         IF a > loans[l].amount_due
         THEN /\ last' = Outcome("stk_push", l, "Amount exceeds due.")
              /\ UNCHANGED <<users, wallets, loans, transactions, ghost, sess>>
         ELSE IF ~accepted
         THEN /\ last' = Outcome("stk_push", l, "Payment Failed")
              /\ UNCHANGED <<users, wallets, loans, transactions, ghost, sess>>
         ELSE /\ ghost' = [ghost EXCEPT ![l].checkout = k]
              /\ last' = Outcome("stk_push", l, "ok")
              /\ UNCHANGED <<users, wallets, loans, transactions, sess>>

(* UserService.get_user_by_phone *)
GetUserByPhone(ph) == {u \in DOMAIN users : users[u].phone_number = ph}

(* LoanService defines no process_loan_repayment: the call raises AttributeError *)
HasProcessLoanRepayment == FALSE

(* MPESAService.handle_callback: what happens inside; every path is caught or falls
   through, and the method returns None *)
CallbackOutcome(c) ==
    IF c = Malformed THEN "json_error"
    ELSE IF c.code = 0
    THEN IF c.amount # 0 /\ c.receipt # NoReceipt
         THEN IF GetUserByPhone(c.phone) # {}
              THEN IF HasProcessLoanRepayment THEN "processed" ELSE "AttributeError"
              ELSE "no user"
         ELSE "ignored"
    ELSE "payment failed"

HandleCallbackReturn(c) == "None"

(* what handle_mpesa_callback holds after its first two statements: request.json()
   raised, or the value handle_callback returned *)
EndpointResult(c) == IF c = Malformed THEN "json_error" ELSE HandleCallbackReturn(c)

(* the endpoint with an except branch that reports the failure to the gateway *)
CallbackResponseFailing(res) ==
    IF res \in {"json_error", "None"} THEN 1
    ELSE IF res = "success" THEN 0
    ELSE 0

(* api.mpesa.handle_mpesa_callback: the ResultCode answered to the gateway.
   request.json() raising, and result.get on None raising, end in the except
   branch; the two branches of the if answer for a dict *)
CallbackResponse(res) ==
    IF res \in {"json_error", "None"} THEN 0
    ELSE IF res = "success" THEN 0
    ELSE 0

(* the endpoint, were a failed payment to mark the rows still pending as failed *)
HandleMpesaCallbackMarksPending(c) ==
    /\ last' = [op |-> "callback", loan |-> 0, result |-> CallbackOutcome(c),
                payload |-> c, response |-> CallbackResponse(EndpointResult(c)),
                again |-> (last.op = "callback" /\ last.payload = c),
                request |-> NoRequest, reply |-> NoReply, prefix |-> "", stk |-> NoStk,
     sms |-> NoSms]
    /\ transactions' = IF c.code > 0
                       THEN {IF t.status = "pending" THEN [t EXCEPT !.status = "failed"]
                             ELSE t : t \in transactions}
                       ELSE transactions
    /\ UNCHANGED <<users, wallets, loans, ghost, sess>>

HandleMpesaCallback(c) ==
    /\ last' = [op |-> "callback", loan |-> 0, result |-> CallbackOutcome(c),
                payload |-> c, response |-> CallbackResponse(EndpointResult(c)),
                again |-> (last.op = "callback" /\ last.payload = c),
                request |-> NoRequest, reply |-> NoReply, prefix |-> "", stk |-> NoStk,
     sms |-> NoSms]
    /\ UNCHANGED <<users, wallets, loans, transactions, ghost, sess>>


----------------------------------------------------------------------------
(* The same requests as concurrent database sessions.  get_db gives every request
   its own session; PostgreSQL runs it READ COMMITTED: every SELECT sees what is
   committed when it runs, the ORM keeps the values it read, and the flush at
   commit writes the columns the request assigned, computed from the values read. *)

(* the flush emits an UPDATE of a column only if the request changed its value *)
WriteCol(cur, read, new) == IF new = read THEN cur ELSE new

Finish(p) == sess' = [sess EXCEPT ![p] = Idle]

(* create_loan_application up to its eligibility check *)
ApplyBegin(p, u, a) ==
    /\ sess[p].pc = "idle"
    /\ LET why == CheckEligibility(u, a) IN
       IF why # "eligible"
       THEN /\ last' = Outcome("apply", 0, why)
            /\ UNCHANGED <<users, wallets, loans, transactions, ghost, sess>>
       ELSE /\ sess' = [sess EXCEPT ![p] = [Idle EXCEPT !.pc = "apply_checked",
                                                          !.user = u, !.amount = a]]
            /\ UNCHANGED <<users, wallets, loans, transactions, ghost, last>>

(* ... and its commit *)
ApplyCommit(p) ==
    /\ sess[p].pc = "apply_checked"
    /\ InsertApplication(sess[p].user, sess[p].amount)
    /\ Finish(p)
    /\ UNCHANGED <<users, wallets>>

(* disburse_loan: the SELECT of the loan row and the status check *)
DisburseBegin(p, l, r) ==
    /\ sess[p].pc = "idle"
    /\ IF ~LoanExists(l)
       THEN /\ last' = Outcome("disburse", l, "Loan not found")
            /\ UNCHANGED <<users, wallets, loans, transactions, ghost, sess>>
       ELSE IF ~CanDisburse(loans[l].status)
       THEN /\ last' = Outcome("disburse", l, "invalid_transition")
            /\ UNCHANGED <<users, wallets, loans, transactions, ghost, sess>>
       ELSE /\ sess' = [sess EXCEPT ![p] =
                          [Idle EXCEPT !.pc = "disburse_loan_read", !.loan = l,
                                       !.receipt = r, !.user = loans[l].user_id,
                                       !.l_amount = loans[l].amount,
                                       !.l_due = loans[l].amount_due]]
            /\ UNCHANGED <<users, wallets, loans, transactions, ghost, last>>

(* the SELECT of the wallet row *)
DisburseReadWallet(p) ==
    /\ sess[p].pc = "disburse_loan_read"
    /\ LET w == wallets[sess[p].user] IN
       sess' = [sess EXCEPT ![p].pc = "disburse_flush",
                            ![p].w_avail = w.available_balance,
                            ![p].w_bal = w.loan_balance,
                            ![p].w_limit = w.current_loan_limit]
    /\ UNCHANGED <<users, wallets, loans, transactions, ghost, last>>

(* the flush and commit *)
DisburseCommit(p) ==
    /\ sess[p].pc = "disburse_flush"
    /\ Finish(p)
    /\ LET s == sess[p]
           l == s.loan
           u == s.user
       IN IF ReceiptTaken(s.receipt)
          THEN /\ last' = Outcome("disburse", l, "integrity_error")
               /\ UNCHANGED <<users, wallets, loans, transactions, ghost>>
          ELSE /\ loans' = [loans EXCEPT ![l].status = DISBURSED]
               /\ wallets' = [wallets EXCEPT
                    ![u].available_balance = s.w_avail + s.l_amount,
                    ![u].loan_balance = s.w_bal + s.l_due,
                    ![u].current_loan_limit = s.w_limit - s.l_amount]
               /\ transactions' = transactions \cup
                     {NewTxn(l, "disbursement", s.l_amount, "completed", s.receipt)}
               /\ ghost' = [ghost EXCEPT ![l] =
                              [limit_before |-> s.w_limit,
                               available_before |-> s.w_avail,
                               balance_after |-> s.w_bal + s.l_due,
                               due_at_disbursement |-> s.l_due,
                               checkout |-> ghost[l].checkout]]
               /\ last' = Outcome("disburse", l, "ok")
               /\ UNCHANGED users

(* record_repayment: the SELECT of the loan row and the status check *)
RepayBegin(p, l, amt, r) ==
    /\ sess[p].pc = "idle"
    /\ IF ~LoanExists(l)
       THEN /\ last' = Outcome("repay", l, "Loan not found")
            /\ UNCHANGED <<users, wallets, loans, transactions, ghost, sess>>
       ELSE IF loans[l].status # DISBURSED
       THEN /\ last' = Outcome("repay", l, "invalid_transition")
            /\ UNCHANGED <<users, wallets, loans, transactions, ghost, sess>>
       ELSE /\ sess' = [sess EXCEPT ![p] =
                          [Idle EXCEPT !.pc = "repay_loan_read", !.loan = l,
                                       !.amount = amt, !.receipt = r,
                                       !.user = loans[l].user_id,
                                       !.l_amount = loans[l].amount,
                                       !.l_due = loans[l].amount_due]]
            /\ UNCHANGED <<users, wallets, loans, transactions, ghost, last>>

(* the SELECT of the wallet row and, for a full repayment, of the user row *)
RepayReadWallet(p) ==
    /\ sess[p].pc = "repay_loan_read"
    /\ LET w == wallets[sess[p].user] IN
       sess' = [sess EXCEPT ![p].pc = "repay_flush",
                            ![p].w_bal = w.loan_balance,
                            ![p].w_limit = w.current_loan_limit,
                            ![p].u_score = users[sess[p].user].credit_score]
    /\ UNCHANGED <<users, wallets, loans, transactions, ghost, last>>

(* the flush and commit *)
RepayCommit(p) ==
    /\ sess[p].pc = "repay_flush"
    /\ Finish(p)
    /\ LET s == sess[p]
           l == s.loan
           u == s.user
           remaining == s.l_due - s.amount
       IN IF ReceiptTaken(s.receipt)
          THEN /\ last' = Outcome("repay", l, "integrity_error")
               /\ UNCHANGED <<users, wallets, loans, transactions, ghost>>
          ELSE /\ Cardinality({t \in transactions : t.type = "repayment"}) < MaxRepayments
               /\ transactions' = transactions \cup
                     {NewTxn(l, "repayment", s.amount, "completed", s.receipt)}
               /\ IF remaining <= 0
                  THEN /\ loans' = [loans EXCEPT ![l].status = REPAID,
                                                 ![l].amount_due = 0]
                       /\ wallets' = [wallets EXCEPT
                            ![u].loan_balance = WriteCol(@, s.w_bal, 0),
                            ![u].current_loan_limit = s.w_limit + s.l_amount]
                       /\ users' = [users EXCEPT ![u].credit_score =
                                      WriteCol(@, s.u_score, ScoreAfterRepaid(s.u_score))]
                  ELSE /\ loans' = [loans EXCEPT ![l].amount_due = remaining]
                       /\ wallets' = [wallets EXCEPT
                            ![u].loan_balance = s.w_bal - s.amount]
                       /\ UNCHANGED users
               /\ last' = Outcome("repay", l, "ok")
               /\ UNCHANGED ghost

(* User.phone_number without its unique index *)
PhoneTakenNever(ph) == FALSE

(* User.phone_number is UNIQUE: an INSERT of a present phone number fails *)
PhoneTaken(ph) == \E u \in DOMAIN users : users[u].phone_number = ph

(* the INSERTs of _get_or_create_user at its commit: the user row and its wallet
   row, or neither *)
InsertUserWithWallet(ph) ==
    IF PhoneTaken(ph)
    THEN /\ last' = Outcome("contact", 0, "integrity_error")
         /\ UNCHANGED <<users, wallets>>
    ELSE \E id \in NewUserIds \ DOMAIN users :
         /\ users' = users @@ (id :> [credit_score |-> DefaultCreditScore,
                                       phone_number |-> ph])
         /\ wallets' = wallets @@
               (id :> [available_balance |-> 0, loan_balance |-> 0,
                       total_loan_limit |-> DefaultTotalLoanLimit,
                       current_loan_limit |-> DefaultCurrentLoanLimit])
         /\ last' = Outcome("contact", 0, "ok")

(* USSDService._get_or_create_user, run to completion *)
GetOrCreateUser(ph) ==
    /\ IF GetUserByPhone(ph) # {}
       THEN /\ last' = Outcome("contact", 0, "found")
            /\ UNCHANGED <<users, wallets>>
       ELSE InsertUserWithWallet(ph)
    /\ UNCHANGED <<loans, transactions, ghost, sess>>

(* _get_or_create_user in its own session: the SELECT of the user by phone *)
ContactBegin(p, ph) ==
    /\ sess[p].pc = "idle"
    /\ IF GetUserByPhone(ph) # {}
       THEN /\ last' = Outcome("contact", 0, "found")
            /\ UNCHANGED <<users, wallets, loans, transactions, ghost, sess>>
       ELSE /\ sess' = [sess EXCEPT ![p] = [Idle EXCEPT !.pc = "contact_checked",
                                                          !.phone = ph]]
            /\ UNCHANGED <<users, wallets, loans, transactions, ghost, last>>

(* ... and its INSERTs and commit *)
ContactCommit(p) ==
    /\ sess[p].pc = "contact_checked"
    /\ InsertUserWithWallet(sess[p].phone)
    /\ Finish(p)
    /\ UNCHANGED <<loans, transactions, ghost>>

(* check_overdue_loans in its own session: the SELECT of the overdue rows *)
OverdueBegin(p) ==
    /\ sess[p].pc = "idle"
    /\ sess' = [sess EXCEPT ![p] = [Idle EXCEPT !.pc = "overdue_read",
                                                !.rows = OverdueLoans]]
    /\ UNCHANGED <<users, wallets, loans, transactions, ghost, last>>

(* ... and its commit: one UPDATE of the status per row selected, by primary key *)
OverdueCommit(p) ==
    /\ sess[p].pc = "overdue_read"
    /\ Finish(p)
    /\ loans' = [l \in 1..Len(loans) |->
                   IF l \in sess[p].rows THEN [loans[l] EXCEPT !.status = DEFAULTED]
                   ELSE loans[l]]
    /\ last' = Outcome("check_overdue", Cardinality(sess[p].rows), "ok")
    /\ UNCHANGED <<users, wallets, transactions, ghost>>

----------------------------------------------------------------------------
(* The menu session: the /ussd endpoint and USSDService.process_request.  The text
   of a request is its path, one segment per "*"; a prompt is kept as its wording,
   the numbers it shows and the words it shows. *)

(* the segments that dial in, and float() on them: the number, or ValueError *)
NumeralValue ==
    ("0" :> 0) @@ ("5" :> 5) @@ ("500" :> 500) @@ ("1000" :> 1000) @@
    ("1150" :> 1150) @@ ("2000" :> 2000) @@ ("3000" :> 3000) @@ ("6000" :> 6000)
IsNumeral(s) == s \in DOMAIN NumeralValue

MenuChoices == {"1", "2", "3", "4", "5", "9"}
AmountTexts == {"0", "1000", "3000", "6000", "abc"}
PayTexts == {"0", "5", "500", "1150", "2000", "abc"}
SessionPaths ==
    {<<>>} \cup {<<c>> : c \in MenuChoices}
           \cup {<<"1", a>> : a \in AmountTexts}
           \cup {<<"1", a, "2">> : a \in AmountTexts}
           \cup {<<"3", a>> : a \in PayTexts}
           \cup {<<"1", "1000", "7">>, <<"1", "1000", "2", "1">>, <<"3", "500", "1">>}
SessionPhones == {PhoneOf("u1"), "254700000003"}

(* what lies outside the store: a failure of the request parsing, of the database
   at the first contact or inside the menu handler; the answer of the gateway; the
   uuid4 a new loan gets, of which the prompt shows the first eight characters; the
   row an unordered .first() returns *)
Faults == {"none", "form", "contact", "handler"}
GatewayAnswers == {"accepted", "no_token", "refused", "timeout"}
LoanRefs == {"a1b2c3d4", "e5f6a7b8"}

PromptReply(text, nums, note, close) ==
    [text |-> text, nums |-> nums, note |-> note, ref |-> "", close |-> close]

(* the user _get_or_create_user returns: the row of the phone number, or a new row
   with id `id` *)
ContactUser(ph, id) ==
    IF GetUserByPhone(ph) # {} THEN CHOOSE u \in GetUserByPhone(ph) : TRUE ELSE id

(* the rows of that user as the handler reads them: the defaults for a new user *)
ScoreOf(u) == IF u \in DOMAIN users THEN users[u].credit_score ELSE DefaultCreditScore
WalletOf(u) ==
    IF u \in DOMAIN wallets THEN wallets[u]
    ELSE [available_balance |-> 0, loan_balance |-> 0,
          total_loan_limit |-> DefaultTotalLoanLimit,
          current_loan_limit |-> DefaultCurrentLoanLimit]

(* check_eligibility as the menu calls it after the first contact; a database
   failure inside it comes back as the reason "System error" *)
EligibilityAfterContact(u, a, fault) ==
    IF fault = "handler" THEN "System error"
    ELSE IF u \in DOMAIN users THEN CheckEligibility(u, a)
    ELSE IF a <= 0 THEN "Invalid amount"
    ELSE IF a > WalletOf(u).current_loan_limit THEN "Amount exceeds limit"
    ELSE IF ScoreOf(u) < MinCreditScore THEN "Low credit score"
    ELSE "eligible"

PurposeOf(c) ==
    IF c = "1" THEN "Emergency" ELSE IF c = "2" THEN "Business"
    ELSE IF c = "3" THEN "Education" ELSE IF c = "4" THEN "Personal" ELSE "General"

(* _handle_loan_application, were the last step to trust the check of the step
   before it *)
HandleLoanApplicationUnchecked(u, inputs, fault, ref) ==
    IF Len(inputs) = 3 /\ IsNumeral(inputs[2]) /\ NumeralValue[inputs[2]] > 0
    THEN [reply |-> [PromptReply("Application Submitted!",
                        <<NumeralValue[inputs[2]], AmountDue(NumeralValue[inputs[2]])>>,
                        PurposeOf(inputs[3]), TRUE) EXCEPT !.ref = ref],
          does |-> "apply"]
    ELSE [reply |-> PromptReply("Invalid input.", <<>>, "", TRUE), does |-> "nothing"]

(* _handle_loan_application: the reply, and whether the application is created *)
HandleLoanApplication(u, inputs, fault, ref) ==
    IF Len(inputs) = 1
    THEN [reply |-> IF fault = "handler"
                    THEN PromptReply("Error processing application.", <<>>, "", TRUE)
                    ELSE PromptReply("Apply for Loan. Enter amount:",
                                     <<WalletOf(u).current_loan_limit>>, "", FALSE),
          does |-> "nothing"]
    ELSE IF Len(inputs) = 2
    THEN [reply |->
            IF ~IsNumeral(inputs[2])
            THEN PromptReply("Invalid amount. Enter numbers only:", <<>>, "", FALSE)
            ELSE IF NumeralValue[inputs[2]] <= 0
            THEN PromptReply("Amount must be greater than 0. Enter valid amount:",
                             <<>>, "", FALSE)
            ELSE IF EligibilityAfterContact(u, NumeralValue[inputs[2]], fault)
                       # "eligible"
            THEN PromptReply("Sorry:", <<>>,
                    EligibilityAfterContact(u, NumeralValue[inputs[2]], fault), TRUE)
            ELSE PromptReply("Select purpose:", <<NumeralValue[inputs[2]]>>, "", FALSE),
          does |-> "nothing"]
    ELSE IF Len(inputs) = 3
    THEN IF ~IsNumeral(inputs[2])
         THEN [reply |-> PromptReply("Application failed:", <<>>,
                                     "could not convert string to float", TRUE),
               does |-> "nothing"]
         ELSE IF EligibilityAfterContact(u, NumeralValue[inputs[2]], fault) # "eligible"
         THEN [reply |-> PromptReply("Application failed:", <<>>,
                    EligibilityAfterContact(u, NumeralValue[inputs[2]], fault), TRUE),
               does |-> "nothing"]
         ELSE [reply |-> [PromptReply("Application Submitted!",
                             <<NumeralValue[inputs[2]],
                               AmountDue(NumeralValue[inputs[2]])>>,
                             PurposeOf(inputs[3]), TRUE) EXCEPT !.ref = ref],
               does |-> "apply"]
    ELSE [reply |-> PromptReply("Invalid input.", <<>>, "", TRUE), does |-> "nothing"]

StatusDisplay(status) ==
    IF status = PENDING THEN "PENDING REVIEW"
    ELSE IF status = APPROVED THEN "APPROVED"
    ELSE IF status = REJECTED THEN "REJECTED"
    ELSE IF status = DISBURSED THEN "ACTIVE"
    ELSE IF status = REPAID THEN "REPAID"
    ELSE "DEFAULTED"

(* get_user_loans(limit = 1): the user's latest application; any failure inside it
   comes back as no rows *)
LatestLoan(u, fault) ==
    IF fault = "handler" THEN {}
    ELSE {l \in LoansOf(u, {PENDING, APPROVED, REJECTED, DISBURSED, REPAID, DEFAULTED}) :
            \A k \in 1..Len(loans) : loans[k].user_id = u => k <= l}

(* _handle_loan_status *)
HandleLoanStatus(u, inputs, fault) ==
    [reply |->
       IF LatestLoan(u, fault) = {}
       THEN PromptReply("No loan applications found.", <<>>, "", TRUE)
       ELSE LET ln == loans[CHOOSE l \in LatestLoan(u, fault) : TRUE] IN
            PromptReply("Latest Loan",
                        IF ln.status = DISBURSED /\ ln.amount_due # 0
                        THEN <<ln.amount, ln.amount_due>> ELSE <<ln.amount>>,
                        StatusDisplay(ln.status), TRUE),
     does |-> "nothing"]

(* get_active_loan as the repayment menu calls it: the row .first() returns among
   the user's DISBURSED loans; any failure inside it comes back as None *)
ActiveLoanRead(u, fault, row) ==
    IF fault = "handler" \/ GetActiveLoan(u) = {} THEN {}
    ELSE IF row \in GetActiveLoan(u) THEN {row}
    ELSE {CHOOSE l \in GetActiveLoan(u) : TRUE}

(* initiate_stk_push with a timeout taken for an accepted request *)
StkPushTimeoutSucceeds(gw) ==
    [success |-> gw \in {"accepted", "timeout"},
     message |-> IF gw = "no_token" THEN "Failed to authenticate with M-Pesa"
                 ELSE IF gw = "refused" THEN "Unknown error"
                 ELSE "Payment request sent to your phone"]

(* MPESAService.initiate_stk_push: what it returns on each answer of the gateway *)
StkPushResult(gw) ==
    [success |-> gw = "accepted",
     message |-> IF gw = "no_token" THEN "Failed to authenticate with M-Pesa"
                 ELSE IF gw = "refused" THEN "Unknown error"
                 ELSE IF gw = "timeout" THEN "Service temporarily unavailable"
                 ELSE "Payment request sent to your phone"]

(* _handle_loan_repayment sending the request for any amount of at least 10 once
   there is an active loan *)
HandleLoanRepaymentNoDueCheck(u, inputs, fault, gw, row) ==
    IF /\ Len(inputs) = 2 /\ IsNumeral(inputs[2]) /\ NumeralValue[inputs[2]] >= 10
       /\ ActiveLoanRead(u, fault, row) # {}
    THEN [reply |-> IF StkPushResult(gw).success
                    THEN PromptReply("Payment Request Sent!",
                                     <<NumeralValue[inputs[2]]>>, "", TRUE)
                    ELSE PromptReply("Payment Failed:", <<>>,
                                     StkPushResult(gw).message, TRUE),
          does |-> "push"]
    ELSE [reply |-> PromptReply("Invalid input.", <<>>, "", TRUE), does |-> "nothing"]

(* _handle_loan_repayment: the reply, and whether initiate_stk_push is called *)
HandleLoanRepayment(u, inputs, fault, gw, row) ==
    IF Len(inputs) = 1
    THEN [reply |->
            IF ActiveLoanRead(u, fault, row) = {}
            THEN PromptReply("No active loan to repay.", <<>>, "", TRUE)
            ELSE LET ln == loans[CHOOSE l \in ActiveLoanRead(u, fault, row) : TRUE] IN
                 PromptReply("Loan Repayment. Enter amount to pay:",
                             <<ln.amount, ln.amount_due>>, "", FALSE),
          does |-> "nothing"]
    ELSE IF Len(inputs) = 2
    THEN IF ~IsNumeral(inputs[2])
         THEN [reply |-> PromptReply("Invalid amount. Enter numbers only.",
                                     <<>>, "", TRUE),
               does |-> "nothing"]
         ELSE IF NumeralValue[inputs[2]] <= 0
         THEN [reply |-> PromptReply("Amount must be greater than 0.", <<>>, "", TRUE),
               does |-> "nothing"]
         ELSE IF NumeralValue[inputs[2]] < 10
         THEN [reply |-> PromptReply("Minimum payment is KES 10.", <<>>, "", TRUE),
               does |-> "nothing"]
         ELSE IF ActiveLoanRead(u, fault, row) = {}
         THEN [reply |-> PromptReply("No active loan found.", <<>>, "", TRUE),
               does |-> "nothing"]
         ELSE LET ln == loans[CHOOSE l \in ActiveLoanRead(u, fault, row) : TRUE] IN
              IF NumeralValue[inputs[2]] > ln.amount_due
              THEN [reply |-> PromptReply("Amount exceeds due.",
                                          <<ln.amount_due>>, "", TRUE),
                    does |-> "nothing"]
              ELSE [reply |-> IF StkPushResult(gw).success
                              THEN PromptReply("Payment Request Sent!",
                                               <<NumeralValue[inputs[2]]>>, "", TRUE)
                              ELSE PromptReply("Payment Failed:", <<>>,
                                               StkPushResult(gw).message, TRUE),
                    does |-> "push"]
    ELSE [reply |-> PromptReply("Invalid input.", <<>>, "", TRUE), does |-> "nothing"]

(* _handle_transaction_history: the three latest ledger rows of the user, of which
   only their number is kept *)
HandleTransactionHistory(u, inputs, fault) ==
    LET rows == {t \in transactions : t.user_id = u} IN
    [reply |->
       IF fault = "handler" THEN PromptReply("No history available.", <<>>, "", TRUE)
       ELSE IF rows = {} THEN PromptReply("No transactions found.", <<>>, "", TRUE)
       ELSE PromptReply("Recent Transactions",
                        <<IF Cardinality(rows) < 3 THEN Cardinality(rows) ELSE 3>>,
                        "", TRUE),
     does |-> "nothing"]

(* _handle_wallet_balance, with get_loan_summary *)
HandleWalletBalance(u, inputs, fault) ==
    [reply |->
       IF fault = "handler" THEN PromptReply("Error checking balance.", <<>>, "", TRUE)
       ELSE PromptReply("Your Wallet",
                        <<WalletOf(u).available_balance, WalletOf(u).loan_balance,
                          WalletOf(u).current_loan_limit, ScoreOf(u),
                          Cardinality(LoansOf(u, {PENDING, APPROVED, REJECTED,
                                                  DISBURSED, REPAID, DEFAULTED})),
                          Cardinality(LoansOf(u, {REPAID}))>>, "", TRUE),
     does |-> "nothing"]

(* process_request after _get_or_create_user returned the user u: the routing on
   the first segment *)
RouteRequest(u, inputs, fault, gw, ref, row) ==
    IF inputs = <<>>
    THEN [reply |-> PromptReply("Welcome to Umoja Loans", <<>>, "", FALSE),
          does |-> "nothing"]
    ELSE IF inputs[1] = "1" THEN HandleLoanApplication(u, inputs, fault, ref)
    ELSE IF inputs[1] = "2" THEN HandleLoanStatus(u, inputs, fault)
    ELSE IF inputs[1] = "3" THEN HandleLoanRepayment(u, inputs, fault, gw, row)
    ELSE IF inputs[1] = "4" THEN HandleTransactionHistory(u, inputs, fault)
    ELSE IF inputs[1] = "5" THEN HandleWalletBalance(u, inputs, fault)
    ELSE [reply |-> PromptReply("Invalid option. Please try again.", <<>>, "", TRUE),
          does |-> "nothing"]

(* process_request: (message, should_close) and what the request does *)
ProcessRequest(ph, inputs, fault, gw, ref, row, id) ==
    IF fault = "contact"
    THEN [reply |-> PromptReply("Service error. Please try again later.",
                                <<>>, "", TRUE),
          does |-> "nothing"]
    ELSE RouteRequest(ContactUser(ph, id), inputs, fault, gw, ref, row)

(* the endpoint that would keep the session open whatever the handler returned *)
UssdPrefixAlwaysContinue(close) == "CON"

(* handle_ussd: the prefix of the response *)
UssdPrefix(close) == IF close THEN "END" ELSE "CON"

(* handle_ussd: the response when reading the form raised *)
EndpointFailureReply ==
    PromptReply("Service temporarily unavailable. Please try again later.",
                <<>>, "", TRUE)

(* what the endpoint answers, and what the request does on the way *)
UssdResult(ph, inputs, fault, gw, ref, row, id) ==
    IF fault = "form"
    THEN [reply |-> EndpointFailureReply, does |-> "nothing"]
    ELSE ProcessRequest(ph, inputs, fault, gw, ref, row, id)

(* handle_ussd, run to completion: the first contact inserts the user and the
   wallet, the third step of the loan menu inserts the application, the second
   step of the repayment menu sends the payment request *)
HandleUssd(ph, inputs, fault, gw, ref, row, id) ==
    \E res \in {UssdResult(ph, inputs, fault, gw, ref, row, id)} :
    LET u == ContactUser(ph, id)
        creates == fault \notin {"form", "contact"} /\ GetUserByPhone(ph) = {}
        a == IF res.does = "apply" THEN NumeralValue[inputs[2]] ELSE 0
        l == IF res.does = "apply" THEN Len(loans) + 1
             ELSE IF res.does = "push"
             THEN CHOOSE k \in ActiveLoanRead(u, fault, row) : TRUE ELSE 0
    IN /\ creates => id \in NewUserIds \ DOMAIN users
       /\ res.does = "apply" => Len(loans) < MaxLoans
       /\ users' = IF creates
                   THEN users @@ (id :> [credit_score |-> DefaultCreditScore,
                                         phone_number |-> ph])
                   ELSE users
       /\ wallets' = IF creates THEN wallets @@ (id :> WalletOf(id)) ELSE wallets
       /\ loans' = IF res.does = "apply"
                   THEN Append(loans, [user_id |-> u, amount |-> a,
                                       amount_due |-> AmountDue(a),
                                       status |-> PENDING, past_due |-> FALSE])
                   ELSE loans
       /\ transactions' =
             IF res.does = "apply"
             THEN transactions \cup
                    {[loan_id |-> l, user_id |-> u, type |-> "application",
                      amount |-> a, status |-> "pending",
                      mpesa_receipt |-> NoReceipt, seq |-> 0]}
             ELSE transactions
       /\ ghost' = IF res.does = "apply" THEN Append(ghost, NoGhost)
                   ELSE IF res.does = "push" /\ StkPushResult(gw).success
                   THEN [ghost EXCEPT ![l].checkout = "ws_CO_1"]
                   ELSE ghost
       /\ last' = [op |-> "ussd", loan |-> l, result |-> res.does,
                   payload |-> NoPayload, response |-> -1, again |-> FALSE,
                   request |-> [phone |-> ph, path |-> inputs, fault |-> fault],
                   reply |-> res.reply, prefix |-> UssdPrefix(res.reply.close),
                   stk |-> IF res.does = "push" THEN gw ELSE NoStk,
                   sms |-> IF res.does = "apply" THEN "application" ELSE NoSms]
       /\ UNCHANGED sess

----------------------------------------------------------------------------
(* Requests run to completion one at a time *)
Next ==
    \/ \E u \in UserIds, a \in Amounts : CreateLoanApplication(u, a)
    \/ \E l \in LoanIds : ApproveLoan(l)
    \/ \E l \in LoanIds : DisburseLoan(l, NoReceipt)
    \/ \E l \in LoanIds : ApproveAndDisburseLoan(l, NoReceipt)
    \/ \E l \in LoanIds, p \in Payments : RecordRepayment(l, p, NoReceipt)
    \/ \E l \in LoanIds : TimePasses(l)
    \/ CheckOverdueLoans

Spec == Init /\ [][Next]_vars

(* The callback endpoint beside the lifecycle of one user's loans *)
NextCallback ==
    \/ CreateLoanApplication("u1", 1000)
    \/ \E l \in LoanIds : ApproveLoan(l)
    \/ \E l \in LoanIds : DisburseLoan(l, NoReceipt)
    \/ \E l \in LoanIds, p \in Payments : RecordRepayment(l, p, NoReceipt)
    \/ \E c \in Payloads : HandleMpesaCallback(c)

SpecCallback == Init /\ [][NextCallback]_vars

(* Disbursements and repayments that carry the gateway's receipt *)
NextReceipt ==
    \/ \E u \in Users : CreateLoanApplication(u, 1000)
    \/ \E l \in LoanIds : ApproveLoan(l)
    \/ \E l \in LoanIds, r \in ReceiptArgs : DisburseLoan(l, r)
    \/ \E l \in LoanIds, p \in Payments, r \in ReceiptArgs : RecordRepayment(l, p, r)

SpecReceipt == Init /\ [][NextReceipt]_vars

(* First contacts: users dial in, alone or two at a time *)
NextFirstContact ==
    \/ \E ph \in ContactPhones : GetOrCreateUser(ph)
    \/ \E p \in Procs, ph \in ContactPhones : ContactBegin(p, ph)
    \/ \E p \in Procs : ContactCommit(p)

SpecFirstContact == Init /\ [][NextFirstContact]_vars

(* Payment requests sent from the repayment menu, and the callbacks on them *)
NextStkPush ==
    \/ \E u \in Users : CreateLoanApplication(u, 1000)
    \/ \E l \in LoanIds : ApproveLoan(l)
    \/ \E l \in LoanIds : DisburseLoan(l, NoReceipt)
    \/ \E u \in Users, a \in Amounts \cup Payments, k \in CheckoutIds,
          accepted \in BOOLEAN : InitiateStkPush(u, a, k, accepted)
    \/ \E c \in Payloads : HandleMpesaCallback(c)

SpecStkPush == Init /\ [][NextStkPush]_vars

(* Two workers' requests interleave at their database statements: applications *)
NextConcApply ==
    \/ \E p \in Procs, u \in UserIds, a \in Amounts : ApplyBegin(p, u, a)
    \/ \E p \in Procs : ApplyCommit(p)
    \/ \E l \in LoanIds : ApproveLoan(l)

(* What runs once loans are approved, with no request to disburse: the approve
   endpoint queues no task, the scheduler runs the overdue check *)
NextWorkflow ==
    \/ \E u \in UserIds, a \in Amounts : CreateLoanApplication(u, a)
    \/ \E l \in LoanIds : ApproveLoan(l)
    \/ CheckOverdueLoans

SpecWorkflow == Init /\ [][NextWorkflow]_vars /\ WF_vars(NextWorkflow)

(* The eligibility check over users whose score an operator has set *)
NextEligibility ==
    \/ \E u \in UserIds, a \in Amounts : CheckEligibilityRequest(u, a)
    \/ \E u \in UserIds, score \in Scores : UpdateUserCreditScore(u, score)
    \/ \E u \in UserIds, a \in Amounts : CreateLoanApplication(u, a)
    \/ \E l \in LoanIds : ApproveLoan(l)
    \/ \E l \in LoanIds : DisburseLoan(l, NoReceipt)
    \/ \E l \in LoanIds : RecordRepayment(l, loans[l].amount_due, NoReceipt)

SpecEligibility == Init /\ [][NextEligibility]_vars

SpecConcApply == Init /\ [][NextConcApply]_vars

(* ... disbursements *)
NextConcDisburse ==
    \/ \E u \in Users : CreateLoanApplication(u, 1000)
    \/ \E l \in LoanIds : ApproveLoan(l)
    \/ \E p \in Procs, l \in LoanIds : DisburseBegin(p, l, NoReceipt)
    \/ \E p \in Procs : DisburseReadWallet(p)
    \/ \E p \in Procs : DisburseCommit(p)

SpecConcDisburse == Init /\ [][NextConcDisburse]_vars

(* ... repayments *)
NextConcRepay ==
    \/ CreateLoanApplication("u1", 1000)
    \/ \E l \in LoanIds : ApproveLoan(l)
    \/ \E l \in LoanIds : DisburseLoan(l, NoReceipt)
    \/ \E p \in Procs, l \in LoanIds, a \in Payments : RepayBegin(p, l, a, NoReceipt)
    \/ \E p \in Procs : RepayReadWallet(p)
    \/ \E p \in Procs : RepayCommit(p)

SpecConcRepay == Init /\ [][NextConcRepay]_vars

(* ... the scheduled overdue check beside repayments *)
NextConcOverdue ==
    \/ CreateLoanApplication("u1", 1000)
    \/ \E l \in LoanIds : ApproveLoan(l)
    \/ \E l \in LoanIds : DisburseLoan(l, NoReceipt)
    \/ \E l \in LoanIds : TimePasses(l)
    \/ \E p \in Procs : OverdueBegin(p)
    \/ \E p \in Procs : OverdueCommit(p)
    \/ \E p \in Procs, l \in LoanIds :
          LoanExists(l) /\ RepayBegin(p, l, loans[l].amount_due, NoReceipt)
    \/ \E p \in Procs : RepayReadWallet(p)
    \/ \E p \in Procs : RepayCommit(p)

SpecConcOverdue == Init /\ [][NextConcOverdue]_vars

(* The menu session beside approvals and disbursements.  What lies outside the
   store is drawn only where the request reads it: the gateway answers a repayment,
   a reference goes to an application, a failed form or first contact never looks
   at the path *)
SessionPathsOn(fault) ==
    IF fault \in {"form", "contact"} THEN {<<>>, <<"1", "1000", "2">>}
    ELSE IF fault = "handler"
    THEN {<<"1">>, <<"1", "1000">>, <<"1", "1000", "2">>, <<"2">>, <<"3">>,
          <<"3", "500">>, <<"4">>, <<"5">>}
    ELSE SessionPaths
GatewayAnswersOn(inputs) ==
    IF Len(inputs) = 2 /\ inputs[1] = "3" THEN GatewayAnswers ELSE {"accepted"}
LoanRefsOn(inputs) ==
    IF Len(inputs) = 3 /\ inputs[1] = "1" THEN LoanRefs ELSE {"a1b2c3d4"}
RowsOn(inputs) ==
    IF inputs # <<>> /\ inputs[1] = "3" THEN LoanIds ELSE {1}
NewUserIdsOn(ph) ==
    IF GetUserByPhone(ph) # {} \/ NewUserIds \subseteq DOMAIN users THEN {"u3"}
    ELSE {CHOOSE id \in NewUserIds : id \notin DOMAIN users}

NextSession ==
    \/ \E ph \in SessionPhones, fault \in Faults :
       \E inputs \in SessionPathsOn(fault) :
       \E gw \in GatewayAnswersOn(inputs), ref \in LoanRefsOn(inputs),
          row \in RowsOn(inputs), id \in NewUserIdsOn(ph) :
             HandleUssd(ph, inputs, fault, gw, ref, row, id)
    \/ \E l \in LoanIds : ApproveLoan(l)
    \/ \E l \in LoanIds : DisburseLoan(l, NoReceipt)

SpecSession == Init /\ [][NextSession]_vars

(* Approve-and-disburse requests that carry the gateway's receipt *)
NextNotify ==
    \/ \E u \in Users : CreateLoanApplication(u, 1000)
    \/ \E l \in LoanIds, r \in ReceiptArgs : ApproveAndDisburseLoan(l, r)
    \/ \E l \in LoanIds, p \in Payments : RecordRepayment(l, p, NoReceipt)

SpecNotify == Init /\ [][NextNotify]_vars

(* Two workers' applications for 3000 each, and the disbursements of the loans
   admitted *)
NextConcLimit ==
    \/ \E p \in Procs, u \in Users : ApplyBegin(p, u, 3000)
    \/ \E p \in Procs : ApplyCommit(p)
    \/ \E l \in LoanIds : ApproveLoan(l)
    \/ \E p \in Procs, l \in LoanIds : DisburseBegin(p, l, NoReceipt)
    \/ \E p \in Procs : DisburseReadWallet(p)
    \/ \E p \in Procs : DisburseCommit(p)

SpecConcLimit == Init /\ [][NextConcLimit]_vars

(* Every operation of the lifecycle, the overdue check and the callbacks *)
NextLedger ==
    \/ \E u \in Users : CreateLoanApplication(u, 1000)
    \/ \E l \in LoanIds : ApproveLoan(l)
    \/ \E l \in LoanIds : DisburseLoan(l, NoReceipt)
    \/ \E l \in LoanIds, p \in Payments : RecordRepayment(l, p, NoReceipt)
    \/ \E l \in LoanIds : TimePasses(l)
    \/ CheckOverdueLoans
    \/ \E c \in Payloads : HandleMpesaCallback(c)

SpecLedger == Init /\ [][NextLedger]_vars
----------------------------------------------------------------------------
(* Properties *)

CompletedOf(l, type) == {t \in TxnsOf(l, type) : t.status = "completed"}

RECURSIVE SumPrincipal(_)
SumPrincipal(L) ==
    IF L = {} THEN 0
    ELSE LET l == CHOOSE x \in L : TRUE IN loans[l].amount + SumPrincipal(L \ {l})

(* C1: with the requests run to completion one at a time, every user has at most
   one loan whose status is PENDING, APPROVED or DISBURSED. *)
C1_SingleActiveLoan ==
    \A u \in Users : Cardinality(LoansOf(u, ActiveStatuses)) <= 1

(* a user with an earlier, closed loan and an active one *)
C1_Witness ==
    \E u \in Users :
        /\ LoansOf(u, {REPAID, DEFAULTED}) # {}
        /\ LoansOf(u, ActiveStatuses) # {}

(* C2: when two apply requests of one user both pass the eligibility check before
   either commits, the user still never has two loans in PENDING, APPROVED or
   DISBURSED. *)
C2_SingleActiveLoanConcurrent ==
    \A l1, l2 \in 1..Len(loans) :
        (/\ loans[l1].user_id = loans[l2].user_id
         /\ loans[l1].status \in ActiveStatuses
         /\ loans[l2].status \in ActiveStatuses) => l1 = l2

(* C3: a disburse that follows a successful disburse of the same loan fails with
   an invalid-transition error and leaves wallets, loans, users and the ledger
   unchanged, so that the wallet holds the mutation of the first call once and the
   ledger one disbursement row of the loan. *)
C3_DisburseTwice ==
    [][\A l \in LoanIds :
          (/\ last.op = "disburse" /\ last.loan = l /\ last.result = "ok"
           /\ DisburseLoan(l, NoReceipt))
          => (/\ last'.result = "invalid_transition"
              /\ UNCHANGED db
              /\ Cardinality(TxnsOf(l, "disbursement")') = 1
              /\ LET w == wallets'[loans[l].user_id]
                     g == ghost'[l]
                 IN /\ w.available_balance = g.available_before + loans[l].amount
                    /\ w.loan_balance = g.balance_after
                    /\ w.current_loan_limit = g.limit_before - loans[l].amount)]_vars

(* the second of two disburse calls on one loan has returned *)
C3_Witness ==
    /\ last.op = "disburse" /\ last.again
    /\ last.result = "invalid_transition"
    /\ loans[last.loan].status = DISBURSED

(* C4: when two disburse requests on one APPROVED loan interleave, the wallet is
   credited for the loan at most once and the ledger gets at most one completed
   disbursement row of the loan. *)
C4_DisbursedOnceConcurrent ==
    /\ \A l \in 1..Len(loans) : Cardinality(CompletedOf(l, "disbursement")) <= 1
    /\ \A u \in Users :
          wallets[u].available_balance
             <= SumPrincipal(LoansOf(u, {DISBURSED, REPAID, DEFAULTED}))

(* a successful payment notification: result code 0 with an amount and a receipt *)
IsSuccessPayload(c) == c.code = 0 /\ c.amount # 0 /\ c.receipt # NoReceipt

PayerHasDisbursedLoan(c) ==
    \E u \in GetUserByPhone(c.phone) : LoansOf(u, {DISBURSED}) # {}

RepaymentsWithReceipt(r) ==
    {t \in transactions : t.type = "repayment" /\ t.status = "completed"
                          /\ t.mpesa_receipt = r}

(* C5: after the same successful callback was delivered twice for a payer with a
   DISBURSED loan, the ledger holds exactly one completed repayment row with the
   callback's receipt. *)
C5_CallbackReplayOnce ==
    (/\ last.op = "callback" /\ last.again
     /\ IsSuccessPayload(last.payload)
     /\ PayerHasDisbursedLoan(last.payload))
    => Cardinality(RepaymentsWithReceipt(last.payload.receipt)) = 1

(* C6: once a successful callback for a payer with a DISBURSED loan has been
   handled, a completed repayment row with the callback's receipt exists. *)
C6_CallbackRecordsRepayment ==
    (/\ last.op = "callback"
     /\ IsSuccessPayload(last.payload)
     /\ PayerHasDisbursedLoan(last.payload))
    => \E t \in transactions :
          /\ t.type = "repayment" /\ t.status = "completed"
          /\ t.mpesa_receipt = last.payload.receipt
          /\ t.amount = last.payload.amount

(* C7: the callback endpoint answers ResultCode 0 to every callback, whatever the
   payload and whatever happened inside. *)
C7_AlwaysAcknowledged ==
    last.op = "callback" => last.response = 0

(* a callback whose processing raised inside has been answered *)
C7_Witness ==
    /\ last.op = "callback"
    /\ last.result = "AttributeError"
    /\ PayerHasDisbursedLoan(last.payload)

(* C8: when the completed repayments of a loan sum to exactly its amount due at
   disbursement, the loan is REPAID with amountDue 0, the wallet's loanBalance is
   that amount lower than right after the disbursement and its currentLoanLimit
   is what it was right before the disbursement. *)
C8_RepaymentRoundTrip ==
    \A l \in 1..Len(loans) :
        (/\ last.op = "repay" /\ last.loan = l /\ last.result = "ok"
         /\ SumAmount(CompletedOf(l, "repayment")) = ghost[l].due_at_disbursement)
        => (/\ loans[l].status = REPAID
            /\ loans[l].amount_due = 0
            /\ wallets[loans[l].user_id].loan_balance
                  = ghost[l].balance_after - ghost[l].due_at_disbursement
            /\ wallets[loans[l].user_id].current_loan_limit = ghost[l].limit_before)

(* C9: a repayment of less than the amount due on a DISBURSED loan leaves the
   status DISBURSED, lowers amountDue and the wallet's loanBalance by the payment
   and appends one completed repayment row of that amount. *)
C9_PartialRepayment ==
    [][\A l \in LoanIds, p \in Payments :
          (/\ LoanExists(l)
           /\ loans[l].status = DISBURSED
           /\ p < loans[l].amount_due
           /\ RecordRepayment(l, p, NoReceipt)
           /\ last'.result = "ok")
          => LET u == loans[l].user_id
                 new == transactions' \ transactions
             IN /\ loans'[l].status = DISBURSED
                /\ loans'[l].amount_due = loans[l].amount_due - p
                /\ wallets'[u].loan_balance = wallets[u].loan_balance - p
                /\ Cardinality(new) = 1
                /\ transactions \subseteq transactions'
                /\ \A t \in new : /\ t.loan_id = l /\ t.type = "repayment"
                                  /\ t.amount = p /\ t.status = "completed"]_vars

(* a partial repayment has been recorded *)
C9_Witness ==
    /\ last.op = "repay" /\ last.result = "ok"
    /\ loans[last.loan].status = DISBURSED
    /\ CompletedOf(last.loan, "repayment") # {}
    /\ loans[last.loan].amount_due < ghost[last.loan].due_at_disbursement

(* C10: while a loan is DISBURSED, its amountDue plus its completed repayments is
   its amountDue at disbursement, and the wallet's loanBalance has dropped by the
   same repayments, also when two repayments of the loan interleave. *)
C10_NoLostRepayment ==
    \A l \in 1..Len(loans) :
        loans[l].status = DISBURSED =>
            /\ loans[l].amount_due + SumAmount(CompletedOf(l, "repayment"))
                  = ghost[l].due_at_disbursement
            /\ wallets[loans[l].user_id].loan_balance
                  + SumAmount(CompletedOf(l, "repayment")) = ghost[l].balance_after

RECURSIVE SumDue(_)
SumDue(L) ==
    IF L = {} THEN 0
    ELSE LET l == CHOOSE x \in L : TRUE IN loans[l].amount_due + SumDue(L \ {l})

(* C11: in every state every user's wallet.loanBalance is the sum of amountDue over
   the user's DISBURSED loans, also after the overdue check marked a loan DEFAULTED
   and a later loan of the user was disbursed and repaid. *)
C11_LoanBalanceIsSumDue ==
    \A u \in Users : wallets[u].loan_balance = SumDue(LoansOf(u, {DISBURSED}))

(* C12: every wallet keeps currentLoanLimit <= totalLoanLimit and loanBalance >= 0. *)
C12_WalletBounds ==
    \A u \in Users :
        /\ wallets[u].current_loan_limit <= wallets[u].total_loan_limit
        /\ wallets[u].loan_balance >= 0

(* C13: a user whose creditScore is in [300, 850] has it in [300, 850] after every
   recordRepayment, and a full repayment sets it to min(old + 50, 850). *)
C13_CreditScoreBound ==
    [][\A l \in LoanIds, p \in Payments :
          (LoanExists(l) /\ RecordRepayment(l, p, NoReceipt))
          => LET u == loans[l].user_id
                 old == users[u].credit_score
                 new == users'[u].credit_score
             IN (old >= 300 /\ old <= 850)
                => /\ new >= 300 /\ new <= 850
                   /\ (last'.result = "ok" /\ p >= loans[l].amount_due)
                      => new = (IF old + 50 <= 850 THEN old + 50 ELSE 850)]_vars

(* a user near the top of the range has fully repaid a second loan *)
C13_Witness ==
    /\ last.op = "repay" /\ last.result = "ok"
    /\ loans[last.loan].status = REPAID
    /\ Cardinality(LoansOf(loans[last.loan].user_id, {REPAID})) = 2
    /\ users[loans[last.loan].user_id].credit_score = 850

(* the edges of the loan lifecycle *)
LifecycleEdges ==
    {<<PENDING, APPROVED>>, <<APPROVED, DISBURSED>>, <<DISBURSED, REPAID>>,
     <<DISBURSED, DEFAULTED>>, <<PENDING, REJECTED>>}

(* C14: every committed change of a loan's status follows one of the edges
   PENDING->APPROVED, APPROVED->DISBURSED, DISBURSED->REPAID, DISBURSED->DEFAULTED,
   PENDING->REJECTED: a loan seen DISBURSED was APPROVED in the committed state
   before, and no loan re-enters PENDING. *)
C14_LifecycleEdgesOnly ==
    [][\A l \in 1..Len(loans) :
          loans'[l].status # loans[l].status
          => <<loans[l].status, loans'[l].status>> \in LifecycleEdges]_vars

TerminalStatuses == {REPAID, REJECTED, DEFAULTED}

(* C15: a loan whose status is REPAID, REJECTED or DEFAULTED keeps that status in
   every later state, also when the overdue check and a full repayment of the
   same loan interleave. *)
C15_TerminalIsFinal ==
    [][\A l \in 1..Len(loans) :
          loans[l].status \in TerminalStatuses
          => loans'[l].status = loans[l].status]_vars

(* C16: a successful apply adds, in one step, a loan with status PENDING and
   amountDue = 1.15 * amount together with exactly one application transaction
   with status pending for that loan; in every state every loan has its
   application transaction and every application transaction has its loan. *)
C16_ApplyAtomic ==
    /\ [](/\ \A l \in 1..Len(loans) : Cardinality(TxnsOf(l, "application")) = 1
          /\ \A t \in transactions : t.type = "application" => LoanExists(t.loan_id))
    /\ [][\A u \in UserIds, a \in Amounts :
            (CreateLoanApplication(u, a) /\ last'.result = "ok")
            => LET l == Len(loans) + 1
                   new == transactions' \ transactions
               IN /\ Len(loans') = l
                  /\ loans'[l].status = PENDING
                  /\ loans'[l].user_id = u
                  /\ loans'[l].amount = a
                  /\ loans'[l].amount_due * 100 = a * 115
                  /\ transactions \subseteq transactions'
                  /\ Cardinality(new) = 1
                  /\ \A t \in new : /\ t.type = "application" /\ t.status = "pending"
                                    /\ t.loan_id = l /\ t.amount = a]_vars

(* an application of 1000 has just been accepted *)
C16_Witness ==
    /\ last.op = "apply" /\ last.result = "ok"
    /\ loans[last.loan].status = PENDING
    /\ loans[last.loan].amount = 1000 /\ loans[last.loan].amount_due = 1150
    /\ \E t \in TxnsOf(last.loan, "application") : t.status = "pending"

IneligibleReasons ==
    {"User not found", "Invalid amount", "Amount exceeds limit", "Low credit score",
     "You have an active loan"}

(* C17: an apply that fails eligibility reports the ineligibility reason and adds no
   loan row and no transaction row; an otherwise acceptable application of a user
   whose loan is DISBURSED fails with "You have an active loan". *)
C17_IneligibleApplyCreatesNothing ==
    [][\A u \in UserIds, a \in Amounts :
          CreateLoanApplication(u, a)
          => /\ last'.result # "ok"
                => /\ last'.result \in IneligibleReasons
                   /\ UNCHANGED db
             /\ (/\ u \in Users
                 /\ LoansOf(u, {DISBURSED}) # {}
                 /\ a > 0 /\ a <= wallets[u].current_loan_limit
                 /\ users[u].credit_score >= 300)
                => /\ last'.result = "You have an active loan"
                   /\ UNCHANGED db]_vars

(* an application was refused while the only loans there are, are DISBURSED *)
C17_Witness ==
    /\ last.op = "apply" /\ last.result = "You have an active loan"
    /\ Len(loans) >= 1
    /\ \A l \in 1..Len(loans) : loans[l].status = DISBURSED

(* C18: for an existing user and wallet the eligibility check answers the reason of
   the first failing rule in the order amount <= 0, amount > currentLoanLimit,
   creditScore < 300, a loan of the user in PENDING, APPROVED or DISBURSED; when
   no rule fails it answers eligible with maxAmount = currentLoanLimit; it changes
   no state. *)
C18_EligibilityOrder ==
    [][\A u \in Users, a \in Amounts :
          CheckEligibilityRequest(u, a)
          => /\ UNCHANGED db
             /\ last'.result =
                  (IF a <= 0 THEN "Invalid amount"
                   ELSE IF a > wallets[u].current_loan_limit THEN "Amount exceeds limit"
                   ELSE IF users[u].credit_score < 300 THEN "Low credit score"
                   ELSE IF \E l \in 1..Len(loans) :
                             /\ loans[l].user_id = u
                             /\ loans[l].status \in {PENDING, APPROVED, DISBURSED}
                        THEN "You have an active loan"
                   ELSE "eligible")
             /\ last'.result = "eligible"
                => last'.response = wallets[u].current_loan_limit]_vars

(* the check refused for the credit score while every user had an active loan too *)
C18_Witness ==
    /\ last.op = "check_eligibility" /\ last.result = "Low credit score"
    /\ \A u \in Users : /\ users[u].credit_score < 300
                        /\ LoansOf(u, ActiveStatuses) # {}

(* C19: approve succeeds only on a PENDING loan, which it sets to APPROVED; on a
   loan in any other status it fails with an invalid-transition error and changes
   neither the loan, the wallet nor any transaction. *)
C19_ApproveOnlyPending ==
    [][\A l \in LoanIds :
          (LoanExists(l) /\ ApproveLoan(l))
          => IF loans[l].status = PENDING
             THEN /\ last'.result = "ok"
                  /\ loans' = [loans EXCEPT ![l].status = APPROVED]
                  /\ UNCHANGED <<users, wallets>>
             ELSE /\ last'.result = "invalid_transition"
                  /\ UNCHANGED db]_vars

(* the second of two approve calls on one loan has returned *)
C19_Witness ==
    /\ last.op = "approve" /\ last.again
    /\ last.result = "invalid_transition"
    /\ loans[last.loan].status = APPROVED

(* C20: a successful disburse of an APPROVED loan with principal a and amountDue d
   sets the status DISBURSED, adds a to the wallet's availableBalance, adds d to
   its loanBalance, subtracts a from its currentLoanLimit and appends one
   completed disbursement transaction of amount a, in one step. *)
C20_DisburseEffects ==
    [][\A l \in LoanIds :
          (/\ LoanExists(l)
           /\ loans[l].status = APPROVED
           /\ DisburseLoan(l, NoReceipt))
          => LET u == loans[l].user_id
                 a == loans[l].amount
                 d == loans[l].amount_due
                 new == transactions' \ transactions
             IN /\ last'.result = "ok"
                /\ loans' = [loans EXCEPT ![l].status = DISBURSED]
                /\ wallets'[u].available_balance = wallets[u].available_balance + a
                /\ wallets'[u].loan_balance = wallets[u].loan_balance + d
                /\ wallets'[u].current_loan_limit = wallets[u].current_loan_limit - a
                /\ wallets'[u].total_loan_limit = wallets[u].total_loan_limit
                /\ \A v \in Users \ {u} : wallets'[v] = wallets[v]
                /\ UNCHANGED users
                /\ transactions \subseteq transactions'
                /\ Cardinality(new) = 1
                /\ \A t \in new : /\ t.type = "disbursement" /\ t.status = "completed"
                                  /\ t.loan_id = l /\ t.amount = a]_vars

(* a loan of 1000 with 1150 due was disbursed on a fresh wallet *)
C20_Witness ==
    /\ last.op = "disburse" /\ last.result = "ok"
    /\ loans[last.loan].status = DISBURSED
    /\ LET w == wallets[loans[last.loan].user_id]
       IN /\ w.available_balance = 1000
          /\ w.loan_balance = 1150
          /\ w.current_loan_limit = 4000

(* C21: a recordRepayment of at least amountDue (overpayment included) on a
   DISBURSED loan sets the status REPAID, amountDue 0 and the wallet's loanBalance
   0, adds the loan's principal to currentLoanLimit, raises the credit score by 50
   up to 850 and appends one completed repayment transaction of the amount paid. *)
C21_FullRepayment ==
    [][\A l \in LoanIds, p \in Payments :
          (/\ LoanExists(l)
           /\ loans[l].status = DISBURSED
           /\ p >= loans[l].amount_due
           /\ RecordRepayment(l, p, NoReceipt))
          => LET u == loans[l].user_id
                 new == transactions' \ transactions
             IN /\ last'.result = "ok"
                /\ loans'[l].status = REPAID
                /\ loans'[l].amount_due = 0
                /\ loans'[l].amount = loans[l].amount
                /\ wallets'[u].loan_balance = 0
                /\ wallets'[u].current_loan_limit
                      = wallets[u].current_loan_limit + loans[l].amount
                /\ wallets'[u].available_balance = wallets[u].available_balance
                /\ users'[u].credit_score
                      = (IF users[u].credit_score + 50 <= 850
                         THEN users[u].credit_score + 50 ELSE 850)
                /\ transactions \subseteq transactions'
                /\ Cardinality(new) = 1
                /\ \A t \in new : /\ t.type = "repayment" /\ t.status = "completed"
                                  /\ t.loan_id = l /\ t.amount = p]_vars

(* a loan was closed by a payment larger than what was still due *)
C21_Witness ==
    /\ last.op = "repay" /\ last.result = "ok"
    /\ loans[last.loan].status = REPAID
    /\ SumAmount(CompletedOf(last.loan, "repayment")) > ghost[last.loan].due_at_disbursement
    /\ wallets[loans[last.loan].user_id].loan_balance = 0

(* C22: recordRepayment on an unknown loan or on a loan whose status is not
   DISBURSED reports failure and leaves loans, wallets, credit scores and the
   ledger unchanged; no repayment transaction is appended. *)
C22_RepaymentNeedsDisbursed ==
    [][\A l \in LoanIds, p \in Payments :
          (/\ RecordRepayment(l, p, NoReceipt)
           /\ (~LoanExists(l) \/ loans[l].status # DISBURSED))
          => /\ last'.op = "repay" /\ last'.result # "ok"
             /\ UNCHANGED db]_vars

(* a repayment was refused on the loan the repayment before it had closed *)
C22_Witness ==
    /\ last.op = "repay" /\ last.again
    /\ last.result = "invalid_transition"
    /\ loans[last.loan].status = REPAID

(* C23: the overdue check sets DEFAULTED exactly on the loans that are DISBURSED
   and past their due date, changes no other loan, and leaves every wallet,
   every credit score and the ledger unchanged. *)
C23_OverdueCheckFrame ==
    [][CheckOverdueLoans
       => /\ Len(loans') = Len(loans)
          /\ \A l \in 1..Len(loans) :
                loans'[l] = (IF loans[l].status = DISBURSED /\ loans[l].past_due
                             THEN [loans[l] EXCEPT !.status = DEFAULTED]
                             ELSE loans[l])
          /\ UNCHANGED <<wallets, users, transactions>>]_vars

(* the check defaulted one loan and left a disbursed loan that is not yet due *)
C23_Witness ==
    /\ last.op = "check_overdue" /\ last.loan = 1
    /\ \E l1, l2 \in 1..Len(loans) :
          /\ loans[l1].status = DEFAULTED
          /\ loans[l2].status = DISBURSED /\ ~loans[l2].past_due
          /\ wallets[loans[l1].user_id].loan_balance > 0

(* C24: a callback whose result code is not 0 creates no transaction and changes no
   transaction, loan, wallet or user, and the response to the gateway reports
   success. *)
C24_FailedCallbackFrame ==
    [][\A c \in Payloads :
          (c.code > 0 /\ HandleMpesaCallback(c))
          => /\ UNCHANGED db
             /\ last'.response = 0]_vars

(* a failed payment was notified while an application was pending in the ledger *)
C24_Witness ==
    /\ last.op = "callback" /\ last.payload.code > 0
    /\ last.result = "payment failed"
    /\ \E t \in transactions : t.status = "pending"

(* C25: once a callback with a result code other than 0 was handled for a payment
   request sent for a loan, the transaction of that request has the status
   failed. *)
C25_FailedCallbackMarksFailed ==
    (last.op = "callback" /\ last.payload.code > 0)
    => \A l \in 1..Len(loans) :
          ghost[l].checkout = last.payload.checkout
          => \E t \in transactions : t.loan_id = l /\ t.status = "failed"

(* C26: after a loan was approved, and with no further request of a caller, the
   loan eventually is DISBURSED. *)
C26_ApprovedLeadsToDisbursed ==
    \A l \in LoanIds :
        (LoanExists(l) /\ loans[l].status = APPROVED)
        ~> (LoanExists(l) /\ loans[l].status = DISBURSED)

(* C27: a loan is DISBURSED, and its wallet credited, only if the gateway moved its
   funds: the ledger then holds the loan's completed disbursement with the
   gateway's receipt; with no gateway step performed the loan is still APPROVED. *)
C27_DisbursedOnlyAfterPush ==
    \A l \in 1..Len(loans) :
        loans[l].status = DISBURSED
        => \E t \in CompletedOf(l, "disbursement") : t.mpesa_receipt # NoReceipt

TransactionStatuses == {"pending", "completed", "failed", "cancelled"}

(* C28: in every state every transaction's status is one of pending, completed,
   failed, cancelled, and a transaction whose status is completed or failed is
   kept as it is by every step. *)
C28_TransactionStatuses ==
    /\ [](\A t \in transactions : t.status \in TransactionStatuses)
    /\ [][\A t \in transactions :
            t.status \in {"completed", "failed"} => t \in transactions']_vars

(* C29: no two transactions carry the same non-null gateway receipt, and a disburse
   or recordRepayment that supplies a receipt already in the ledger fails as a
   whole: loans, wallets, credit scores and the ledger are unchanged. *)
C29_ReceiptUnique ==
    /\ [](\A t1, t2 \in transactions :
            (t1.mpesa_receipt # NoReceipt /\ t1.mpesa_receipt = t2.mpesa_receipt)
            => t1 = t2)
    /\ [][\A l \in LoanIds, p \in Payments, r \in Receipts :
            (/\ \E t \in transactions : t.mpesa_receipt = r
             /\ (DisburseLoan(l, r) \/ RecordRepayment(l, p, r)))
            => /\ last'.result # "ok"
               /\ UNCHANGED db]_vars

(* a repayment was refused for its receipt, which a disbursement carries *)
C29_Witness ==
    /\ last.op = "repay" /\ last.result = "integrity_error"
    /\ loans[last.loan].status = DISBURSED
    /\ \E t \in transactions : t.type = "disbursement" /\ t.mpesa_receipt # NoReceipt
    /\ CompletedOf(last.loan, "repayment") = {}

(* C30: in every state every user has exactly one wallet and no two users have the
   same phone number, also after two first contacts from one phone number ran
   at the same time and one of them failed. *)
C30_OneWalletPerUser ==
    /\ DOMAIN users = DOMAIN wallets
    /\ \A a, b \in DOMAIN users :
          users[a].phone_number = users[b].phone_number => a = b

(* of two first contacts from one number, one created the user and the other
   failed *)
C30_Witness ==
    /\ last.op = "contact" /\ last.result = "integrity_error"
    /\ \E id \in NewUserIds :
          /\ id \in DOMAIN users /\ id \in DOMAIN wallets
          /\ wallets[id].current_loan_limit = DefaultCurrentLoanLimit

(* the reply of a request from phone ph with path inputs, processed from the
   current store with nothing failing, for one draw of what lies outside the store *)
ReplyOf(ph, inputs, gw, ref, row) ==
    ProcessRequest(ph, inputs, "none", gw, ref, row,
                   CHOOSE id \in NewUserIdsOn(ph) : TRUE).reply

(* C31 as stated: two requests with the same phone number and the same path, each
   processed from the same store state, return the same prompt and the same
   terminal flag, whatever the gateway answers and whatever reference a new loan
   gets. *)
C31_Deterministic ==
    \A ph \in SessionPhones, inputs \in SessionPaths :
    \A gw \in GatewayAnswers, ref \in LoanRefs, row \in LoanIds :
        ReplyOf(ph, inputs, gw, ref, row) = ReplyOf(ph, inputs, "accepted", "a1b2c3d4", 1)

(* C31, amended: two requests with the same phone number and the same path, each
   processed from the same store state, return the same terminal flag; they return
   the same prompt when the gateway gives both the same answer, up to the
   reference of the loan an accepted application has just created.  (Only the
   repayment menu is handed the gateway's answer and the row read, only the loan
   menu the reference.) *)
C31_DeterministicUpToGatewayAndRef ==
    \A ph \in SessionPhones, inputs \in SessionPaths :
    \A gw \in GatewayAnswersOn(inputs), ref \in LoanRefsOn(inputs),
       row \in RowsOn(inputs) :
        LET r == ReplyOf(ph, inputs, gw, ref, row) IN
        /\ r.close = ReplyOf(ph, inputs, "accepted", "a1b2c3d4", 1).close
        /\ [r EXCEPT !.ref = ""]
             = [ReplyOf(ph, inputs, gw, "a1b2c3d4", 1) EXCEPT !.ref = ""]
        /\ r.text # "Application Submitted!" => r.ref = ""

(* a user with a DISBURSED loan opened the repayment menu and was shown the loan *)
C31_Witness ==
    /\ last.op = "ussd"
    /\ last.reply.text = "Loan Repayment. Enter amount to pay:"
    /\ last.reply.nums = <<1000, 1150>>
    /\ ~last.reply.close

(* a request that failed inside processing: the form, the first contact or a
   database statement of the handler raised, the menu option is unknown, or the
   path is deeper than the menu *)
FailedInside(req) ==
    \/ req.fault # "none"
    \/ req.path # <<>> /\ req.path[1] \notin {"1", "2", "3", "4", "5"}
    \/ req.path # <<>> /\ req.path[1] = "1" /\ Len(req.path) > 3
    \/ req.path # <<>> /\ req.path[1] = "3" /\ Len(req.path) > 2

(* C32: every session request is answered with a message; the answer is prefixed
   CON exactly when the handler returned a non-terminal prompt and END otherwise,
   and a request that failed inside processing is answered END. *)
C32_AlwaysAResponse ==
    last.op = "ussd" =>
        /\ last.reply.text # ""
        /\ last.prefix \in {"CON", "END"}
        /\ last.prefix = "CON" <=> ~last.reply.close
        /\ FailedInside(last.request) => last.prefix = "END"

(* the database failed inside check_eligibility at the second step of the loan
   menu, and the session was ended *)
C32_Witness ==
    /\ last.op = "ussd"
    /\ last.request.fault = "handler"
    /\ last.request.path = <<"1", "1000">>
    /\ last.reply.note = "System error"
    /\ last.prefix = "END"

(* C33: a payment request the gateway did not accept (no access token, a non-zero
   response code, a timeout or another exception) comes back from
   initiate_stk_push with success = false, changes no loan, wallet, ledger row or
   credit score, and the repayment menu ends the session with a failure message. *)
C33_FailedPushChangesNothing ==
    [][(last'.op = "ussd" /\ last'.stk \notin {NoStk, "accepted"})
       => (/\ ~StkPushResult(last'.stk).success
           /\ UNCHANGED <<users, wallets, loans, transactions, ghost>>
           /\ last'.reply.text = "Payment Failed:"
           /\ last'.reply.note = StkPushResult(last'.stk).message
           /\ last'.reply.close
           /\ last'.prefix = "END")]_vars

(* the gateway call timed out on a repayment of 500 against a DISBURSED loan *)
C33_Witness ==
    /\ last.op = "ussd"
    /\ last.stk = "timeout"
    /\ last.request.path = <<"3", "500">>
    /\ loans[last.loan].status = DISBURSED
    /\ last.reply.text = "Payment Failed:"

(* C34: a disbursement notification is queued only once the disbursement is
   committed: whenever the last request queued one, the loan it names is DISBURSED
   and the ledger holds its completed disbursement row. *)
C34_NotifiedAfterCommit ==
    last.sms = "disbursed" =>
        /\ LoanExists(last.loan)
        /\ loans[last.loan].status = DISBURSED
        /\ CompletedOf(last.loan, "disbursement") # {}

(* C35: in every reachable state a loan that is DISBURSED, REPAID or DEFAULTED
   has exactly one completed disbursement row in the ledger, and a loan that is
   PENDING, APPROVED or REJECTED has none. *)
C35_OneDisbursementRow ==
    \A l \in 1..Len(loans) :
        Cardinality(CompletedOf(l, "disbursement"))
            = IF loans[l].status \in {DISBURSED, REPAID, DEFAULTED} THEN 1 ELSE 0

(* C36: in every reachable state every wallet has currentLoanLimit >= 0, and the
   principals of a user's DISBURSED loans add up to no more than the limit the
   user had when the loans were admitted. *)
C36_LimitNeverNegative ==
    \A u \in DOMAIN wallets :
        /\ wallets[u].current_loan_limit >= 0
        /\ SumPrincipal(LoansOf(u, {DISBURSED})) <= DefaultCurrentLoanLimit

(* C37: a user's creditScore changes only in a recordRepayment that fully repays
   a DISBURSED loan of the user. Applications, approvals, disbursements, partial
   repayments, the overdue check and callbacks leave it unchanged, and it never
   decreases. *)
C37_ScoreOnlyByFullRepayment ==
    [][\A u \in DOMAIN users :
          /\ u \in DOMAIN users'
          /\ users'[u].credit_score >= users[u].credit_score
          /\ users'[u].credit_score # users[u].credit_score
               => \E l \in LoanIds, p \in Payments :
                     /\ RecordRepayment(l, p, NoReceipt)
                     /\ LoanExists(l)
                     /\ loans[l].user_id = u
                     /\ loans[l].status = DISBURSED
                     /\ p >= loans[l].amount_due
                     /\ loans'[l].status = REPAID]_vars

(* a full repayment has raised the score of u1 by the bonus *)
C37_Witness ==
    /\ last.op = "repay" /\ last.result = "ok"
    /\ loans[last.loan].status = REPAID
    /\ loans[last.loan].user_id = "u1"
    /\ users["u1"].credit_score = DefaultCreditScore + RepaidScoreBonus

(* C38: wallet.availableBalance is changed only by a disbursement: applications,
   approvals, repayments and the overdue check leave it unchanged, it never
   decreases, and it always equals the sum of the principals of the user's loans
   that were ever disbursed. *)
C38_AvailableIsSumDisbursed ==
    /\ [](\A u \in DOMAIN wallets :
            wallets[u].available_balance
               = SumPrincipal(LoansOf(u, {DISBURSED, REPAID, DEFAULTED})))
    /\ [][\A u \in DOMAIN wallets :
            /\ wallets'[u].available_balance >= wallets[u].available_balance
            /\ wallets'[u].available_balance # wallets[u].available_balance
                 => /\ last'.op \in {"disburse", "approve_and_disburse"}
                    /\ last'.result = "ok"]_vars

(* C39: a session request creates a loan only if its path is a loan menu path of
   depth 3 and the eligibility check passes when it is processed: the new loan is
   PENDING, of a positive amount no greater than the user's currentLoanLimit, for
   a user with no active loan and a sufficient score; requests of any other
   depth, and refused ones, leave the loans and the ledger unchanged. *)
C39_LoanOnlyAtDepthThree ==
    [][last'.op = "ussd" =>
         LET req == last'.request IN
         IF loans' # loans
         THEN /\ Len(req.path) = 3 /\ req.path[1] = "1" /\ req.fault = "none"
              /\ Len(loans') = Len(loans) + 1
              /\ \A k \in 1..Len(loans) : loans'[k] = loans[k]
              /\ LET ln == loans'[Len(loans')] IN
                    /\ ln.status = PENDING
                    /\ IsNumeral(req.path[2]) /\ ln.amount = NumeralValue[req.path[2]]
                    /\ ln.amount > 0
                    /\ ln.amount <= WalletOf(ln.user_id).current_loan_limit
                    /\ ScoreOf(ln.user_id) >= MinCreditScore
                    /\ LoansOf(ln.user_id, ActiveStatuses) = {}
                    /\ ln.user_id \in DOMAIN users'
                    /\ users'[ln.user_id].phone_number = req.phone
         ELSE transactions' = transactions]_vars

(* a depth-3 path was sent for a user who has an active loan, and was refused *)
C39_Witness ==
    /\ last.op = "ussd"
    /\ last.request.path = <<"1", "3000", "2">>
    /\ last.reply.text = "Application failed:"
    /\ last.reply.note = "You have an active loan"
    /\ \E l \in 1..Len(loans) :
          /\ loans[l].status \in ActiveStatuses
          /\ users[loans[l].user_id].phone_number = last.request.phone

(* C40: the repayment menu sends a payment request only when the user has a
   DISBURSED loan and the amount entered is at least 10 and at most the amount
   due of that loan, and then it does send one; any other request with an amount
   ends the session without a call to the gateway; no request of the repayment
   menu changes a loan, a wallet or the ledger. *)
C40_PushOnlyWithinDue ==
    [][(/\ last'.op = "ussd"
        /\ last'.request.path # <<>>
        /\ last'.request.path[1] = "3"
        /\ last'.request.fault = "none")
       => LET req == last'.request
              pays == /\ Len(req.path) = 2
                      /\ IsNumeral(req.path[2])
                      /\ \E u \in GetUserByPhone(req.phone) : \E l \in LoansOf(u, {DISBURSED}) :
                            /\ 10 <= NumeralValue[req.path[2]]
                            /\ NumeralValue[req.path[2]] <= loans[l].amount_due
                            /\ last'.loan = l
          IN /\ loans' = loans
             /\ transactions' = transactions
             /\ \A u \in DOMAIN wallets : wallets'[u] = wallets[u]
             /\ last'.stk # NoStk <=> pays
             /\ (last'.stk = NoStk /\ Len(req.path) >= 2) => last'.prefix = "END"]_vars

(* the full amount due of a DISBURSED loan was entered and the request was sent *)
C40_Witness ==
    /\ last.op = "ussd"
    /\ last.request.path = <<"3", "1150">>
    /\ last.stk = "accepted"
    /\ loans[last.loan].status = DISBURSED
    /\ loans[last.loan].amount_due = 1150
    /\ last.reply.text = "Payment Request Sent!"
====
